---- MODULE Spec2Model ----
(***************************************************************************)
(* Model of phase 2 of ai-pdf2docx (src/phase2_json_to_docx.py): the       *)
(* Markdown table parser, the element renderer / document assembler and    *)
(* the batch driver.                                                       *)
(*                                                                         *)
(* Text is a sequence of one-character strings; a name the code only       *)
(* compares whole (an element type, the key document_elements) is a text   *)
(* of one piece.  Three specifications:                                    *)
(*   SpecParse     parse_markdown_table applied to bounded input texts     *)
(*   SpecAssemble  one call of create_docx_from_structured_data            *)
(*   Spec          run_json_to_docx_conversion over a directory listing    *)
(***************************************************************************)
EXTENDS Integers, Sequences, FiniteSets, TLC

VARIABLES
    \* ---- parser harness (SpecParse) ----
    text,        \* markdown_table_content handed to parse_markdown_table
    table_data,  \* the grid it returned
    md,          \* the grid written back as Markdown, one line per row
    regrid,      \* the grid parsed from md
    ppc,         \* "input" | "parsed" | "serialized" | "reparsed" | "off"
    \* ---- batch driver and assembler (Spec) ----
    dir_ok,      \* os.path.isdir(args.input_json_directory)
    listing,     \* os.listdir(...): sequence of file names
    overwrite,   \* args.overwrite
    disk,        \* output directory: docx basename -> "absent" | "old" | "new"
    idx,         \* position of the for loop in listing (1-based)
    pc,          \* "start" | "loop" | "call" | "render" | "done" | "returned" | "raised"
    caller,      \* who called the assembler: "batch" | "direct"
    output_docx_path,  \* argument of the assembler call: the output file
    json_content_str,  \* argument of the assembler call: the file's content
    elements,    \* data["document_elements"] once validation has passed
    k,           \* index of the next element to render (1-based)
    doc,         \* the Document being assembled: sequence of blocks
    ret,         \* outcome of the last assembler call: "none"|"True"|"False"|"raised"
    raised,      \* the uncaught exception, [where, what]
    reads,       \* file names opened for reading, in order
    calls,       \* output paths the assembler was invoked with, in order
    log          \* messages printed, in order

pvars == <<text, table_data, md, regrid, ppc>>
bvars == <<dir_ok, listing, overwrite, disk, idx, pc, caller, output_docx_path,
           json_content_str, elements, k, doc, ret, raised, reads, calls, log>>
vars == <<text, table_data, md, regrid, ppc,
          dir_ok, listing, overwrite, disk, idx, pc, caller, output_docx_path,
          json_content_str, elements, k, doc, ret, raised, reads, calls, log>>

(***************************************************************************)
(* Bounds                                                                  *)
(***************************************************************************)
MaxLen == 7
MaxLines == 3
MaxElems == 3
MaxFiles == 3

(***************************************************************************)
(* Python string primitives, as the code uses them                         *)
(***************************************************************************)
\* str.strip() with no argument removes whitespace
Whitespace == {" ", "\n", "\t"}

RECURSIVE lstrip(_, _)
lstrip(s, cs) ==
    IF s # <<>> /\ Head(s) \in cs THEN lstrip(Tail(s), cs) ELSE s

RECURSIVE rstrip(_, _)
rstrip(s, cs) ==
    IF s # <<>> /\ s[Len(s)] \in cs THEN rstrip(SubSeq(s, 1, Len(s) - 1), cs) ELSE s

\* s.strip(chars): every leading and every trailing character in cs goes
strip_chars(s, cs) == rstrip(lstrip(s, cs), cs)

strip(s) == strip_chars(s, Whitespace)

\* s.split(d): the pieces between occurrences of d, empty pieces kept
RECURSIVE split(_, _)
split(s, d) ==
    IF \A p \in 1..Len(s) : s[p] # d
    THEN <<s>>
    ELSE LET p == CHOOSE q \in 1..Len(s) :
                      s[q] = d /\ \A j \in 1..(q - 1) : s[j] # d
         IN  <<SubSeq(s, 1, p - 1)>> \o split(SubSeq(s, p + 1, Len(s)), d)

\* sep.join(parts)
RECURSIVE join(_, _)
join(parts, sep) ==
    IF parts = <<>> THEN <<>>
    ELSE IF Len(parts) = 1 THEN parts[1]
    ELSE parts[1] \o sep \o join(Tail(parts), sep)

startswith(s, c) == s # <<>> /\ s[1] = c
endswith(s, c) == s # <<>> /\ s[Len(s)] = c

(***************************************************************************)
(* parse_markdown_table                                                    *)
(***************************************************************************)
\* line 9: the stripped, non-empty lines of the stripped content
table_lines(content) ==
    LET raw == split(strip(content), "\n")
        stripped == [p \in 1..Len(raw) |-> strip(raw[p])]
    IN  SelectSeq(stripped, LAMBDA l : l # <<>>)

\* clean_cell without the trim
clean_cell_untrimmed(cell_text) == cell_text

\* line 11
clean_cell(cell_text) == strip(cell_text)

\* line 14: a line is taken as a table row iff it starts and ends with '|'
accepted(line) == startswith(line, "|") /\ endswith(line, "|")

\* line 15: all(c in '-|: ' for c in line)
SeparatorChars == {"-", "|", ":", " "}
is_separator(line) == \A p \in 1..Len(line) : line[p] \in SeparatorChars

\* line 17
line_cells(line) ==
    LET parts == split(strip_chars(line, {"|"}), "|")
    IN  [p \in 1..Len(parts) |-> clean_cell(parts[p])]

\* add_row that drops a short row instead of padding it
add_row_dropping_short(st, cells) ==
    IF ~st.header_parsed
    THEN [table_data |-> Append(st.table_data, cells),
          num_cols |-> Len(cells), header_parsed |-> TRUE]
    ELSE IF Len(cells) = st.num_cols
    THEN [st EXCEPT !.table_data = Append(@, cells)]
    ELSE IF Len(cells) > st.num_cols /\ st.num_cols > 0
    THEN [st EXCEPT !.table_data = Append(@, SubSeq(cells, 1, st.num_cols))]
    ELSE st

\* lines 18-26: what one accepted line does to (table_data, header_parsed, num_cols)
add_row(st, cells) ==
    IF ~st.header_parsed
    THEN [table_data |-> Append(st.table_data, cells),
          num_cols |-> Len(cells), header_parsed |-> TRUE]
    ELSE IF Len(cells) = st.num_cols
    THEN [st EXCEPT !.table_data = Append(@, cells)]
    ELSE IF Len(cells) > st.num_cols /\ st.num_cols > 0
    THEN [st EXCEPT !.table_data = Append(@, SubSeq(cells, 1, st.num_cols))]
    ELSE IF Len(cells) < st.num_cols /\ st.num_cols > 0
    THEN [st EXCEPT !.table_data =
              Append(@, cells \o [j \in 1..(st.num_cols - Len(cells)) |-> <<>>])]
    ELSE IF st.num_cols = 0 /\ cells # <<>>
    THEN [st EXCEPT !.table_data = Append(@, cells), !.num_cols = Len(cells)]
    ELSE st

\* lines 13-26: the loop, i is enumerate's 0-based index
RECURSIVE parse_loop(_, _, _)
parse_loop(lines, i, st) ==
    IF i >= Len(lines)
    THEN st.table_data
    ELSE LET line == lines[i + 1]
         IN  IF ~accepted(line)
             THEN IF i = 1 /\ is_separator(line)
                  THEN parse_loop(lines, i + 1, st)
                  ELSE parse_loop(lines, i + 1, st)
             ELSE parse_loop(lines, i + 1, add_row(st, line_cells(line)))

\* lines 8-27
parse_markdown_table(markdown_table_content) ==
    LET lines == table_lines(markdown_table_content)
    IN  IF lines = <<>>
        THEN <<>>
        ELSE parse_loop(lines, 0,
                 [table_data |-> <<>>, header_parsed |-> FALSE, num_cols |-> 0])

(***************************************************************************)
(* JSON values, as json.loads returns them                                 *)
(***************************************************************************)
JNull == [t |-> "null", v |-> <<>>]
JNum(n) == [t |-> "num", v |-> n]
JStr(s) == [t |-> "str", v |-> s]
JArr(xs) == [t |-> "arr", v |-> xs]
JObj(f) == [t |-> "obj", v |-> f]

\* the key looked up at line 34
Key == "document_elements"

\* Python truth value of a JSON value
truthy(j) ==
    CASE j.t = "null" -> FALSE
      [] j.t = "num" -> j.v # 0
      [] j.t = "str" -> j.v # <<>>
      [] j.t = "arr" -> j.v # <<>>
      [] j.t = "obj" -> DOMAIN j.v # {}

\* str(x) inside an f-string
py_str(j) ==
    CASE j.t = "null" -> <<"None">>
      [] j.t = "num" -> <<ToString(j.v)>>
      [] j.t = "str" -> j.v
      [] OTHER -> <<"<repr>">>

\* dict.get(key, default)
get(obj, key, default) ==
    IF key \in DOMAIN obj.v THEN obj.v[key] ELSE default

\* str.splitlines(): the lines, without a last empty piece
splitlines(s) ==
    LET p == split(s, "\n")
    IN  IF p[Len(p)] = <<>> THEN SubSeq(p, 1, Len(p) - 1) ELSE p

(***************************************************************************)
(* create_docx_from_structured_data: validation (lines 32-39)              *)
(***************************************************************************)
\* file contents: [kind, json] with kind "unreadable" | "blank" | "malformed" | "json"
Unreadable == [kind |-> "unreadable", json |-> JNull]
Blank == [kind |-> "blank", json |-> JNull]
Malformed == [kind |-> "malformed", json |-> JNull]
Json(j) == [kind |-> "json", json |-> j]
NoContent == [kind |-> "none", json |-> JNull]

\* "document_elements" in data: key of a dict, item of a list, substring of a str
key_in(data) ==
    CASE data.t = "obj" -> Key \in DOMAIN data.v
      [] data.t = "arr" -> \E p \in 1..Len(data.v) : data.v[p] = JStr(<<Key>>)
      [] data.t = "str" -> \E p \in 1..Len(data.v) : data.v[p] = Key
      [] OTHER -> FALSE

\* lines 32-39: "pass", "False" (validation failure reported) or an exception
\* that is not json.JSONDecodeError and so leaves the function
validate(c) ==
    IF c.kind # "json"
    THEN [res |-> "False", msg |-> "Error decoding JSON"]
    ELSE IF c.json.t \in {"num", "null"}
    THEN [res |-> "TypeError", msg |-> "not iterable"]
    ELSE IF ~key_in(c.json)
    THEN [res |-> "False", msg |-> "Error: key not found or not a list"]
    ELSE IF c.json.t # "obj"
    THEN [res |-> "TypeError", msg |-> "indices must be integers"]
    ELSE IF c.json.v[Key].t # "arr"
    THEN [res |-> "False", msg |-> "Error: key not found or not a list"]
    ELSE [res |-> "pass", msg |-> ""]

(***************************************************************************)
(* create_docx_from_structured_data: rendering one element (lines 43-93)   *)
(***************************************************************************)
Ok(d) == [exc |-> "none", doc |-> d]
Raise(e, d) == [exc |-> e, doc |-> d]

\* a block put at the front of the document
add_block_in_front(d, b) == <<b>> \o d

\* the document grows at its end
add_block(d, b) == Append(d, b)

\* doc.add_paragraph(text, style): a text is added as a run unless it is
\* falsy; a truthy value that is no string cannot be iterated as text
add_paragraph(d, n, content, style) ==
    IF content.t = "str"
    THEN Ok(add_block(d, [kind |-> "paragraph", src |-> n, style |-> style,
                          text |-> content.v, rows |-> <<>>]))
    ELSE IF ~truthy(content)
    THEN Ok(add_block(d, [kind |-> "paragraph", src |-> n, style |-> style,
                          text |-> <<>>, rows |-> <<>>]))
    ELSE Raise("TypeError", d)

\* lines 68-82: the table block; data rows are kept when of the header's length
add_table(d, n, grid) ==
    LET num_cols == Len(grid[1])
        data_rows == SelectSeq(Tail(grid), LAMBDA row : Len(row) = num_cols)
    IN  add_block(d, [kind |-> "table", src |-> n, style |-> "Table Grid",
                      text |-> <<>>, rows |-> <<grid[1]>> \o data_rows])

\* a table element that leaves a placeholder paragraph when it has no rows
render_table_placeholder(d, n, content, lib_fails) ==
    IF content.t # "str"
    THEN Raise("AttributeError", d)
    ELSE LET grid == parse_markdown_table(content.v)
         IN  IF grid # <<>> /\ grid[1] # <<>> /\ Len(grid[1]) > 0
             THEN Ok(add_table(d, n, grid))
             ELSE add_paragraph(d, n, JStr(<<"[empty table]">>), "Normal")

\* lines 57-89; lib_fails: the document library raises while the table is built
render_table(d, n, content, lib_fails) ==
    IF ~truthy(content)
    THEN Ok(d)
    ELSE IF content.t # "str"
    THEN Raise("AttributeError", d)
    ELSE IF strip(content.v) = <<>>
    THEN Ok(d)
    ELSE LET grid == parse_markdown_table(content.v)
         IN  IF grid # <<>> /\ grid[1] # <<>> /\ Len(grid[1]) > 0
             THEN IF lib_fails
                  THEN add_paragraph(d, n,
                           JStr(<<"[Fallback: Error rendering table. Raw Markdown:]", "\n">>
                                \o content.v), "Normal")
                  ELSE Ok(add_table(d, n, grid))
             ELSE Ok(d)

\* lines 53-56
render_paragraph(d, n, content) ==
    IF content.t # "str"
    THEN Raise("AttributeError", d)
    ELSE LET processed_content == strip(join(splitlines(content.v), <<" ">>))
         IN  IF processed_content # <<>>
             THEN add_paragraph(d, n, JStr(processed_content), "Normal")
             ELSE Ok(d)

\* lines 91-93
render_unknown(d, n, el_type, content) ==
    IF truthy(content)
    THEN add_paragraph(d, n,
             JStr(<<"[Unknown type: ">> \o py_str(el_type) \o <<"] ">> \o py_str(content)),
             "Normal")
    ELSE Ok(d)

\* lines 44-93: the body of the loop for element number n
render_element(d, n, element, lib_fails) ==
    IF element.t # "obj"
    THEN Raise("AttributeError", d)
    ELSE LET el_type == get(element, "type", JNull)
             content == get(element, "content", JStr(<<>>))
         IN  IF el_type = JStr(<<"heading_1">>)
             THEN add_paragraph(d, n, content, "Heading 1")
             ELSE IF el_type = JStr(<<"heading_2">>)
             THEN add_paragraph(d, n, content, "Heading 2")
             ELSE IF el_type = JStr(<<"heading_3">>)
             THEN add_paragraph(d, n, content, "Heading 3")
             ELSE IF el_type = JStr(<<"paragraph">>)
             THEN render_paragraph(d, n, content)
             ELSE IF el_type = JStr(<<"table_markdown">>)
             THEN render_table(d, n, content, lib_fails)
             ELSE render_unknown(d, n, el_type, content)

\* whether the element reaches the try block of lines 67-89
builds_table(element) ==
    /\ element.t = "obj"
    /\ get(element, "type", JNull) = JStr(<<"table_markdown">>)
    /\ LET content == get(element, "content", JStr(<<>>))
       IN  /\ content.t = "str"
           /\ strip(content.v) # <<>>
           /\ parse_markdown_table(content.v) # <<>>

(***************************************************************************)
(* Inputs of the assembler                                                 *)
(***************************************************************************)
\* "|a|b|\n|-|-|\n|1|2|": header, separator, one data line
TableText ==
    <<"|", "a", "|", "b", "|", "\n", "|", "-", "|", "-", "|", "\n",
      "|", "1", "|", "2", "|">>

\* "|a|b|\n|1|": the data line is one cell short
RaggedText == <<"|", "a", "|", "b", "|", "\n", "|", "1", "|">>

El(ty, content) == JObj([type |-> JStr(<<ty>>), content |-> content])

\* elements of every kind the renderer tells apart: the five known types and
\* an unknown one, with content that is text, empty, blank, missing, null or a
\* number, and an entry that is no object
Elements == {
    El("heading_1", JStr(<<"T">>)),
    El("heading_2", JStr(<<>>)),
    El("heading_3", JNull),
    El("heading_1", JNum(5)),
    El("paragraph", JStr(<<"a", "\n", "b">>)),
    El("paragraph", JStr(<<" ", "\n">>)),
    El("paragraph", JNull),
    JObj([type |-> JStr(<<"paragraph">>)]),
    El("table_markdown", JStr(TableText)),
    El("table_markdown", JStr(RaggedText)),
    El("table_markdown", JStr(<<>>)),
    El("table_markdown", JStr(<<" ", "\n">>)),
    El("table_markdown", JStr(<<"a">>)),
    El("table_markdown", JNull),
    El("table_markdown", JNum(5)),
    El("footnote", JStr(<<"x">>)),
    El("footnote", JStr(<<>>)),
    JObj([content |-> JStr(<<"x">>)]),
    JNum(5) }

ElementLists == UNION {[1..n -> Elements] : n \in 0..MaxElems}

Document(es) == Json(JObj([document_elements |-> JArr(es)]))

\* valid JSON without a list under document_elements
OtherJson == {
    JNum(5),
    JNull,
    JStr(<<"x">>),
    JStr(<<"x", Key, "y">>),
    JArr(<<>>),
    JArr(<<JStr(<<Key>>)>>),
    JObj([foo |-> JArr(<<>>)]),
    JObj([document_elements |-> JNum(5)]),
    JObj([document_elements |-> JObj([foo |-> JArr(<<>>)])]) }

AssemblerInputs ==
    {Malformed} \cup {Json(j) : j \in OtherJson} \cup {Document(es) : es \in ElementLists}

(***************************************************************************)
(* The file system the batch driver sees                                   *)
(***************************************************************************)
File(base, ext) == [base |-> base, ext |-> ext]

FileNames == {File("a", ".json"), File("a", ".JSON"), File("b", ".json"), File("notes", ".txt")}

\* os.listdir: at most MaxFiles names, no name twice, in any order
Listings ==
    {l \in UNION {[1..n -> FileNames] : n \in 0..MaxFiles} :
        \A p, q \in 1..Len(l) : p # q => l[p] # l[q]}

\* what a file of the input directory may hold
BatchContents == {
    Unreadable,
    Blank,
    Malformed,
    Json(JNum(5)),
    Json(JObj([foo |-> JArr(<<>>)])),
    Document(<<>>),
    Document(<<El("heading_1", JStr(<<"T">>))>>),
    Document(<<El("table_markdown", JStr(TableText))>>),
    Document(<<JNum(5)>>) }

\* str.lower() on the extension
lower(ext) == IF ext = ".JSON" THEN ".json" ELSE ext

\* line 115
is_json(f) == lower(f.ext) = ".json"

\* lines 117-118: splitext(filename)[0] + ".docx" in the output directory
docx_path(f) == File(f.base, ".docx")

\* the outputs the batch can write
OutPaths == {docx_path(f) : f \in {g \in FileNames : is_json(g)}}

\* the skip test without the overwrite flag
must_skip_ignoring_flag(f) == disk[docx_path(f)] # "absent"

\* line 120
must_skip(f) == disk[docx_path(f)] # "absent" /\ ~overwrite

(***************************************************************************)
(* Initial states                                                          *)
(***************************************************************************)
NoException == [where |-> "none", what |-> "none"]
NoPath == File("", "")

ParserOff ==
    /\ text = <<>> /\ table_data = <<>> /\ md = <<>> /\ regrid = <<>>
    /\ ppc = "off"

\* the batch driver is not running
BatchOff ==
    /\ dir_ok = FALSE /\ listing = <<>> /\ overwrite = FALSE
    /\ disk = [p \in OutPaths |-> "absent"]
    /\ idx = 0 /\ pc = "off" /\ caller = "none" /\ output_docx_path = NoPath
    /\ json_content_str = NoContent /\ elements = <<>> /\ k = 0 /\ doc = <<>>
    /\ ret = "none" /\ raised = NoException
    /\ reads = <<>> /\ calls = <<>> /\ log = <<>>

\* run_json_to_docx_conversion(args) is entered
BatchInit ==
    /\ ParserOff
    /\ dir_ok \in BOOLEAN
    /\ listing \in Listings
    /\ overwrite \in BOOLEAN
    /\ disk \in [OutPaths -> {"absent", "old"}]
    /\ idx = 0 /\ pc = "start" /\ caller = "batch" /\ output_docx_path = NoPath
    /\ json_content_str = NoContent /\ elements = <<>> /\ k = 0 /\ doc = <<>>
    /\ ret = "none" /\ raised = NoException
    /\ reads = <<>> /\ calls = <<>> /\ log = <<>>

\* create_docx_from_structured_data(json_content_str, output_docx_path) is entered
AssembleInit ==
    /\ ParserOff
    /\ dir_ok = TRUE /\ listing = <<>> /\ overwrite = FALSE
    /\ output_docx_path = File("a", ".docx")
    /\ \E before \in {"absent", "old"} :
           disk = [p \in OutPaths |->
                      IF p = output_docx_path THEN before ELSE "absent"]
    /\ idx = 0 /\ pc = "call" /\ caller = "direct"
    /\ json_content_str \in AssemblerInputs
    /\ elements = <<>> /\ k = 0 /\ doc = <<>>
    /\ ret = "none" /\ raised = NoException
    /\ reads = <<>> /\ calls = <<output_docx_path>> /\ log = <<>>

(***************************************************************************)
(* create_docx_from_structured_data, step by step                          *)
(***************************************************************************)
\* the function returns: its locals go, the batch loop moves to the next file
Return(result, msg) ==
    /\ ret' = result
    /\ log' = Append(log, msg)
    /\ pc' = IF caller = "batch" THEN "loop" ELSE "returned"
    /\ idx' = IF caller = "batch" THEN idx + 1 ELSE idx
    /\ json_content_str' = NoContent /\ elements' = <<>> /\ k' = 0 /\ doc' = <<>>

\* an exception nothing catches: neither the assembler nor the batch loop
\* (line 133 is outside any try) handles it
Uncaught(where, what) ==
    /\ pc' = "raised"
    /\ ret' = "raised"
    /\ raised' = [where |-> where, what |-> what]
    /\ UNCHANGED <<dir_ok, listing, overwrite, disk, idx, caller,
                   output_docx_path, json_content_str, elements, k, doc,
                   reads, calls, log>>

\* lines 32-41: validation passes, doc = Document()
ValidatePass ==
    /\ pc = "call"
    /\ validate(json_content_str).res = "pass"
    /\ pc' = "render"
    /\ elements' = json_content_str.json.v[Key].v
    /\ k' = 1
    /\ doc' = <<>>
    /\ UNCHANGED <<dir_ok, listing, overwrite, disk, idx, caller,
                   output_docx_path, json_content_str, ret, raised, reads,
                   calls, log>>
    /\ UNCHANGED pvars

\* lines 35-36 and 38-39: the failure is printed, the function returns False
ValidateFail ==
    /\ pc = "call"
    /\ validate(json_content_str).res = "False"
    /\ Return("False", validate(json_content_str).msg)
    /\ UNCHANGED <<dir_ok, listing, overwrite, disk, caller, output_docx_path,
                   raised, reads, calls>>
    /\ UNCHANGED pvars

\* line 34 raises what line 37 does not catch
ValidateRaise ==
    /\ pc = "call"
    /\ validate(json_content_str).res \notin {"pass", "False"}
    /\ Uncaught("validate", validate(json_content_str).res)
    /\ UNCHANGED pvars

\* lines 43-93: one pass of the loop over the elements
RenderElement ==
    /\ pc = "render"
    /\ k <= Len(elements)
    /\ \E lib_fails \in IF builds_table(elements[k]) THEN BOOLEAN ELSE {FALSE} :
           LET r == render_element(doc, k, elements[k], lib_fails)
           IN  /\ r.exc = "none"
               /\ doc' = r.doc
               /\ log' = IF lib_fails
                         THEN Append(log, "Error creating table in DOCX")
                         ELSE log
    /\ k' = k + 1
    /\ UNCHANGED <<dir_ok, listing, overwrite, disk, idx, pc, caller,
                   output_docx_path, json_content_str, elements, ret, raised,
                   reads, calls>>
    /\ UNCHANGED pvars

\* lines 44-93: the pass raises
RenderRaise ==
    /\ pc = "render"
    /\ k <= Len(elements)
    /\ render_element(doc, k, elements[k], FALSE).exc # "none"
    /\ Uncaught("render", render_element(doc, k, elements[k], FALSE).exc)
    /\ UNCHANGED pvars

\* lines 95-101: doc.save succeeds or raises; either way the function returns
Save ==
    /\ pc = "render"
    /\ k > Len(elements)
    /\ \E saved \in BOOLEAN :
           IF saved
           THEN /\ disk' = [disk EXCEPT ![output_docx_path] = "new"]
                /\ Return("True", "Successfully created DOCX")
           ELSE /\ disk' = disk
                /\ Return("False", "Error saving DOCX file")
    /\ UNCHANGED <<dir_ok, listing, overwrite, caller, output_docx_path,
                   raised, reads, calls>>
    /\ UNCHANGED pvars

AssembleNext ==
    \/ ValidatePass
    \/ ValidateFail
    \/ ValidateRaise
    \/ RenderElement
    \/ RenderRaise
    \/ Save

SpecAssemble == AssembleInit /\ [][AssembleNext]_vars

(***************************************************************************)
(* run_json_to_docx_conversion, step by step                               *)
(***************************************************************************)
\* lines 108-112
Start ==
    /\ pc = "start"
    /\ IF dir_ok
       THEN /\ pc' = "loop" /\ idx' = 1 /\ log' = log
       ELSE /\ pc' = "done" /\ idx' = idx
            /\ log' = Append(log, "Error: Input JSON directory not found")
    /\ UNCHANGED <<dir_ok, listing, overwrite, disk, caller, output_docx_path,
                   json_content_str, elements, k, doc, ret, raised, reads,
                   calls>>
    /\ UNCHANGED pvars

at_file == pc = "loop" /\ idx \in 1..Len(listing)

\* line 115: not a .json name
SkipNotJson ==
    /\ at_file
    /\ ~is_json(listing[idx])
    /\ idx' = idx + 1
    /\ UNCHANGED <<dir_ok, listing, overwrite, disk, pc, caller,
                   output_docx_path, json_content_str, elements, k, doc, ret,
                   raised, reads, calls, log>>
    /\ UNCHANGED pvars

\* lines 120-122
SkipExisting ==
    /\ at_file
    /\ is_json(listing[idx])
    /\ must_skip(listing[idx])
    /\ idx' = idx + 1
    /\ log' = Append(log, "Skipping, DOCX output already exists")
    /\ UNCHANGED <<dir_ok, listing, overwrite, disk, pc, caller,
                   output_docx_path, json_content_str, elements, k, doc, ret,
                   raised, reads, calls>>
    /\ UNCHANGED pvars

\* lines 124-130: open or read raises
ReadError ==
    /\ at_file
    /\ is_json(listing[idx])
    /\ ~must_skip(listing[idx])
    /\ Unreadable \in BatchContents
    /\ reads' = Append(reads, listing[idx])
    /\ idx' = idx + 1
    /\ log' = log \o <<"Processing", "Error reading JSON file">>
    /\ UNCHANGED <<dir_ok, listing, overwrite, disk, pc, caller,
                   output_docx_path, json_content_str, elements, k, doc, ret,
                   raised, calls>>
    /\ UNCHANGED pvars

\* lines 124-127, 132, 134-135: the file holds only whitespace
ReadBlank ==
    /\ at_file
    /\ is_json(listing[idx])
    /\ ~must_skip(listing[idx])
    /\ Blank \in BatchContents
    /\ reads' = Append(reads, listing[idx])
    /\ idx' = idx + 1
    /\ log' = log \o <<"Processing", "Skipping empty JSON file">>
    /\ UNCHANGED <<dir_ok, listing, overwrite, disk, pc, caller,
                   output_docx_path, json_content_str, elements, k, doc, ret,
                   raised, calls>>
    /\ UNCHANGED pvars

\* lines 124-127, 132-133: the file is read and the assembler is called
ReadAndCall ==
    /\ at_file
    /\ is_json(listing[idx])
    /\ ~must_skip(listing[idx])
    /\ \E c \in BatchContents :
           /\ c.kind \in {"malformed", "json"}
           /\ json_content_str' = c
    /\ reads' = Append(reads, listing[idx])
    /\ output_docx_path' = docx_path(listing[idx])
    /\ calls' = Append(calls, docx_path(listing[idx]))
    /\ pc' = "call"
    /\ log' = Append(log, "Processing")
    /\ UNCHANGED <<dir_ok, listing, overwrite, disk, idx, caller, elements, k,
                   doc, ret, raised>>
    /\ UNCHANGED pvars

\* line 137: the listing is exhausted
Finish ==
    /\ pc = "loop"
    /\ idx > Len(listing)
    /\ pc' = "done"
    /\ log' = Append(log, "Phase 2 (JSON to DOCX) processing complete.")
    /\ UNCHANGED <<dir_ok, listing, overwrite, disk, idx, caller,
                   output_docx_path, json_content_str, elements, k, doc, ret,
                   raised, reads, calls>>
    /\ UNCHANGED pvars

Next ==
    \/ Start
    \/ SkipNotJson
    \/ SkipExisting
    \/ ReadError
    \/ ReadBlank
    \/ ReadAndCall
    \/ Finish
    \/ ValidatePass
    \/ ValidateFail
    \/ ValidateRaise
    \/ RenderElement
    \/ RenderRaise
    \/ Save

Spec == BatchInit /\ [][Next]_vars

(***************************************************************************)
(* Parser harness: the input texts and the steps that apply the parser     *)
(***************************************************************************)
Alphabet == {"|", " ", "a", "\n"}

\* every text of at most MaxLen characters over Alphabet
ShortTexts == UNION {[1..n -> Alphabet] : n \in 0..MaxLen}

\* whole lines: header and data rows of 1, 2 and 3 cells, separator lines
\* with and without enclosing pipes, noise, rows with empty edge cells
LineSet == {
    <<"|", "a", "|">>,
    <<"|", "a", "|", "b", "|">>,
    <<"|", " ", "1", " ", "|", " ", "2", " ", "|">>,
    <<"|", "a", "|", "b", "|", "c", "|">>,
    <<"|", "-", "|">>,
    <<"|", "-", "-", "-", "|", ":", "-", "|">>,
    <<"-", "|", "-">>,
    <<"|", "|", "b", "|">>,
    <<"a">> }

\* texts of at most MaxLines lines of LineSet
LineTexts ==
    {join(ls, <<"\n">>) : ls \in UNION {[1..n -> LineSet] : n \in 1..MaxLines}}

Inputs == ShortTexts \cup LineTexts

\* a grid written back as Markdown: "| c1 | c2 |", one line per row
serialize_row(row) == <<"|", " ">> \o join(row, <<" ", "|", " ">>) \o <<" ", "|">>
serialize(grid) ==
    join([r \in 1..Len(grid) |-> serialize_row(grid[r])], <<"\n">>)

ParseInit ==
    /\ text \in Inputs
    /\ table_data = <<>> /\ md = <<>> /\ regrid = <<>>
    /\ ppc = "input"
    /\ BatchOff

Parse ==
    /\ ppc = "input"
    /\ table_data' = parse_markdown_table(text)
    /\ ppc' = "parsed"
    /\ UNCHANGED <<text, md, regrid>>
    /\ UNCHANGED bvars

Serialize ==
    /\ ppc = "parsed"
    /\ md' = serialize(table_data)
    /\ ppc' = "serialized"
    /\ UNCHANGED <<text, table_data, regrid>>
    /\ UNCHANGED bvars

Reparse ==
    /\ ppc = "serialized"
    /\ regrid' = parse_markdown_table(md)
    /\ ppc' = "reparsed"
    /\ UNCHANGED <<text, table_data, md>>
    /\ UNCHANGED bvars

ParseNext == Parse \/ Serialize \/ Reparse

SpecParse == ParseInit /\ [][ParseNext]_vars

(***************************************************************************)
(* Claims about parse_markdown_table (checked under SpecParse)             *)
(***************************************************************************)
pipes(line) == Cardinality({p \in 1..Len(line) : line[p] = "|"})

\* the fields between the enclosing delimiters: split on '|', the one
\* leading and the one trailing field removed, each field trimmed
enclosed_cells(line) ==
    LET f == split(line, "|")
    IN  [j \in 1..(Len(f) - 2) |-> strip(f[j + 1])]

\* a header or data line: enclosed in pipes, every cell non-blank, not a separator
is_table_row(line) ==
    /\ accepted(line) /\ pipes(line) >= 2
    /\ ~is_separator(line)
    /\ \A j \in 1..Len(enclosed_cells(line)) : enclosed_cells(line)[j] # <<>>

\* a header/alignment separator line: enclosed in pipes, every cell dashes and colons
is_separator_row(line) ==
    /\ accepted(line) /\ pipes(line) >= 2
    /\ is_separator(line)
    /\ \A j \in 1..Len(enclosed_cells(line)) :
           \E p \in 1..Len(enclosed_cells(line)[j]) : enclosed_cells(line)[j][p] = "-"

\* header line, separator line, then data lines, all of the same number of cells
WellFormedTable(t) ==
    LET ls == split(t, "\n")
    IN  /\ Len(ls) >= 2
        /\ is_table_row(ls[1])
        /\ is_separator_row(ls[2]) /\ pipes(ls[2]) = pipes(ls[1])
        /\ \A p \in 3..Len(ls) : is_table_row(ls[p]) /\ pipes(ls[p]) = pipes(ls[1])

\* C1: for a well-formed table (header, separator, N data lines of M cells)
\* the returned grid has N+1 rows of length M: the separator line is no row.
C1_SeparatorSkipped ==
    (ppc # "input" /\ WellFormedTable(text)) =>
        LET ls == split(text, "\n")
        IN  /\ Len(table_data) = Len(ls) - 1
            /\ \A r \in 1..Len(table_data) : Len(table_data[r]) = pipes(ls[1]) - 1

accepted_lines(t) == SelectSeq(table_lines(t), accepted)

\* cells cut to the first n, or padded on the right with empty strings
normalized(cells, n) ==
    [j \in 1..n |-> IF j <= Len(cells) THEN cells[j] ELSE <<>>]

\* C2: the grid is rectangular and loses no accepted line: row r is the
\* r-th accepted line's cells, truncated or padded to the first accepted
\* line's number of cells.
C2_RectangularNoLoss ==
    ppc # "input" =>
        LET acc == accepted_lines(text)
        IN  /\ Len(table_data) = Len(acc)
            /\ \A r \in 1..Len(table_data) :
                   /\ table_data[r] =
                          normalized(line_cells(acc[r]), Len(line_cells(acc[1])))
                   /\ Len(table_data[r]) = Len(table_data[1])

\* a parsed text with a short row (padded) and a long row (truncated)
C2_Witness ==
    /\ ppc = "parsed"
    /\ LET acc == accepted_lines(text)
       IN  /\ Len(acc) >= 3
           /\ \E r \in 2..Len(acc) :
                  /\ Len(line_cells(acc[r])) < Len(line_cells(acc[1]))
                  /\ table_data[r][Len(table_data[r])] = <<>>
           /\ \E r \in 2..Len(acc) :
                  Len(line_cells(acc[r])) > Len(line_cells(acc[1]))

\* C7: the grid written back as Markdown, one pipe-delimited line per row,
\* parses to the same grid.
C7_ReparseIdempotent ==
    ppc = "reparsed" => regrid = table_data

\* a round trip of a grid of several rows, one of them padded
C7_Witness ==
    /\ ppc = "reparsed"
    /\ Len(table_data) >= 2
    /\ Len(table_data[1]) >= 2
    /\ \E r \in 2..Len(table_data) : table_data[r][Len(table_data[r])] = <<>>
    /\ regrid = table_data

\* C10: an accepted line with k delimiter characters yields k-1 cells: only
\* the one leading and the one trailing empty field are removed (stated of
\* the first accepted line, whose cells are the grid's first row as they are).
C10_CellExtraction ==
    (ppc # "input" /\ accepted_lines(text) # <<>>
        /\ pipes(accepted_lines(text)[1]) >= 2) =>
        /\ table_data[1] = enclosed_cells(accepted_lines(text)[1])
        /\ Len(table_data[1]) = pipes(accepted_lines(text)[1]) - 1

(***************************************************************************)
(* Claims about create_docx_from_structured_data (under SpecAssemble)      *)
(***************************************************************************)
\* the text is no JSON, or JSON without a list under document_elements
LacksElements(c) ==
    \/ c.kind = "malformed"
    \/ /\ c.kind = "json"
       /\ \/ c.json.t # "obj"
          \/ Key \notin DOMAIN c.json.v
          \/ c.json.v[Key].t # "arr"

\* C3: called with text that is not valid JSON, or JSON that lacks
\* document_elements or has a non-list there, the assembler returns False
\* without reaching doc.save and leaves the output path as it was.
C3_InvalidInputReturnsFalse ==
    [][(pc = "call" /\ LacksElements(json_content_str)) =>
           (ret' = "False" /\ pc' \notin {"raised", "render"} /\ disk' = disk)]_vars

\* C5: once validation has passed, no element makes the renderer raise: the
\* loop always gets to doc.save.
C5_RendererNeverFails ==
    raised.where # "render"

IsPrefix(a, b) == Len(a) <= Len(b) /\ SubSeq(b, 1, Len(a)) = a

\* C6: the document is append-only during assembly (a pass of the loop
\* keeps every block already there, in place), and the blocks stand in the
\* order of the elements that produced them.
C6_OrderPreserved ==
    /\ [][(pc = "render" /\ pc' = "render") => IsPrefix(doc, doc')]_vars
    /\ [](\A p, q \in 1..Len(doc) : p < q => doc[p].src < doc[q].src)

\* the document handed to doc.save holds the blocks of the first and the
\* third element, in that order; the second element produced none
C6_Witness ==
    /\ pc = "render" /\ k > Len(elements)
    /\ Len(elements) = 3
    /\ Len(doc) = 2
    /\ doc[1].src = 1 /\ doc[2].src = 3

\* a table_markdown element whose content is empty or blank, or in which the
\* parser finds no row
EmptyTable(e) ==
    /\ e.t = "obj"
    /\ get(e, "type", JNull) = JStr(<<"table_markdown">>)
    /\ LET content == get(e, "content", JStr(<<>>))
       IN  /\ content.t = "str"
           /\ \/ strip(content.v) = <<>>
              \/ parse_markdown_table(content.v) = <<>>

\* C9: rendering such an element adds no block and leaves the document as
\* it was; no block of the document comes from such an element.
C9_EmptyTableNoBlock ==
    /\ [][(pc = "render" /\ k <= Len(elements) /\ EmptyTable(elements[k])
              /\ pc' = "render") => (doc' = doc /\ k' = k + 1)]_vars
    /\ [](pc = "render" =>
              \A p \in 1..Len(doc) : ~EmptyTable(elements[doc[p].src]))

\* a non-blank table without any row was passed over, the element after it
\* gave the document's only block
C9_Witness ==
    /\ pc = "render" /\ k > Len(elements)
    /\ Len(elements) = 2
    /\ EmptyTable(elements[1])
    /\ strip(elements[1].v.content.v) # <<>>
    /\ Len(doc) = 1 /\ doc[1].src = 2

(***************************************************************************)
(* Claims about run_json_to_docx_conversion (under Spec)                   *)
(***************************************************************************)
\* C4: no per-file error is fatal to the batch: whatever a file holds, no
\* exception leaves the loop.
C4_NoErrorFatalToBatch ==
    caller = "batch" => pc # "raised"

Last(q) == q[Len(q)]

\* C8: reaching a .json file whose .docx exists with overwrite unset, the
\* driver goes to the next file without reading it or calling the assembler
\* and the output stays as it is; otherwise the file is read and, unless it
\* is unreadable or blank, the assembler is called with the same basename
\* and the extension .docx.  With overwrite unset an existing output never
\* changes.
C8_SkipPolicy ==
    /\ [][(at_file /\ is_json(listing[idx])) =>
             IF disk[File(listing[idx].base, ".docx")] # "absent" /\ ~overwrite
             THEN /\ reads' = reads /\ calls' = calls /\ disk' = disk
                  /\ pc' = "loop" /\ idx' = idx + 1
             ELSE /\ reads' = Append(reads, listing[idx])
                  /\ pc' \in {"call", "loop"}
                  /\ pc' = "call" =>
                         /\ output_docx_path' = File(listing[idx].base, ".docx")
                         /\ calls' = Append(calls, output_docx_path')
                         /\ json_content_str'.kind \in {"malformed", "json"}
                  /\ pc' = "loop" =>
                         /\ calls' = calls /\ idx' = idx + 1
                         /\ Last(log') \in {"Error reading JSON file",
                                            "Skipping empty JSON file"}]_vars
    /\ [][\A o \in OutPaths :
              (~overwrite /\ disk[o] # "absent") => disk'[o] = disk[o]]_vars

\* a finished batch that skipped one file, whose old output is still there,
\* and called the assembler for another
C8_Witness ==
    /\ pc = "done" /\ ~overwrite
    /\ \E p, q \in 1..Len(listing) :
           /\ is_json(listing[p])
           /\ disk[docx_path(listing[p])] = "old"
           /\ \A r \in 1..Len(reads) : reads[r] # listing[p]
           /\ \E r \in 1..Len(reads) : reads[r] = listing[q]
           /\ \E r \in 1..Len(calls) : calls[r] = docx_path(listing[q])
           /\ disk[docx_path(listing[q])] = "new"

====
